---- MODULE Spec2Model ----
(***************************************************************************)
(* Chaerea passphrase generator (src/app.js).                              *)
(*                                                                         *)
(* Text is modelled as a sequence of one-character strings, so that        *)
(* split/join/capitalisation/substitution act on characters as in the      *)
(* source.  Numbers that JavaScript may yield as NaN are records           *)
(* [isNaN, val].                                                           *)
(*                                                                         *)
(* Specifications:                                                         *)
(*   Spec          the page: DOM state, event handlers, generateAndDisplay *)
(*   SpecGarbler   garbledVariants applied to bounded words                *)
(*   SpecSampler   getSecureRandomIndex, one step per draw                 *)
(*   SpecCounter   the exact count computed in generateAndDisplay          *)
(*   SpecStrength  the strength (bits) computed from the exact count       *)
(***************************************************************************)
EXTENDS Integers, Sequences, FiniteSets, TLC

VARIABLES
    \* ---- DOM state read or written by src/app.js ----
    wordCountValue,      \* wordCountInput.value (text)
    garbleMaxValue,      \* garbleMaxInput.value (text)
    separatorValue,      \* separatorInput.value (text)
    includeNumberValue,  \* includeNumberSelect.value
    builtinListValue,    \* builtinListSelect.value
    wordTextareaValue,   \* wordTextarea.value, as its sequence of lines
    validationMsg,       \* validationMsg.textContent (which message)
    wordCountInfo,       \* wordCountInfo.textContent (its numbers)
    passphraseOutput,    \* passphraseOutput.textContent
    passphraseCount,     \* passphraseCountEl.textContent
    strengthText,        \* #passphrase-strength
    currentLength,       \* #passphrase-current-length
    minLength,           \* #passphrase-min-length
    maxLength,           \* #passphrase-max-length
    \* ---- script state ----
    activeWords,         \* let activeWords
    started,             \* FALSE until the script's final generateBtn.click()
    lastGen,             \* history: what the handler of the latest event did
    events,              \* history: number of user events handled so far
    \* ---- getSecureRandomIndex, stepwise ----
    s_pc, s_max, s_limit, s_value, s_draws,
    \* ---- argument/result of the function a function-level spec applies ----
    probe

appVars == <<wordCountValue, garbleMaxValue, separatorValue, includeNumberValue,
             builtinListValue, wordTextareaValue, validationMsg, wordCountInfo,
             passphraseOutput, passphraseCount, strengthText, currentLength,
             minLength, maxLength, activeWords, started, lastGen, events>>
samplerVars == <<s_pc, s_max, s_limit, s_value, s_draws>>
vars == <<appVars, samplerVars, probe>>

\* ------------------------------------------------------------------------
\* Bounds of the model
\* ------------------------------------------------------------------------
MaxWordLen == 3      \* longest word handed to garbledVariants in SpecGarbler
RandomBits == 4      \* width of one random draw (32 in the source, scaled)
MaxDraws == 3        \* the draw counter of SpecSampler saturates here
MaxBaseSize == 3     \* SpecCounter: largest activeWords.length
MaxEffectiveSize == 6 \* SpecCounter: largest wordsForGen.length
CounterMaxCount == 4 \* SpecCounter: largest word count
MaxSmallExp == 20    \* SpecStrength: counts near 2^1 .. 2^MaxSmallExp
MaxEvents == 2       \* Spec: user events explored after the page has loaded

\* ------------------------------------------------------------------------
\* Characters and text
\* ------------------------------------------------------------------------
LowerLetters == <<"a","b","c","d","e","f","g","h","i","j","k","l","m",
                  "n","o","p","q","r","s","t","u","v","w","x","y","z">>
UpperLetters == <<"A","B","C","D","E","F","G","H","I","J","K","L","M",
                  "N","O","P","Q","R","S","T","U","V","W","X","Y","Z">>
DigitChars == <<"0","1","2","3","4","5","6","7","8","9">>

Range(s) == {s[i] : i \in DOMAIN s}

IndexIn(seq, x) == CHOOSE i \in DOMAIN seq : seq[i] = x

UpperOf == [ch \in Range(LowerLetters) |-> UpperLetters[IndexIn(LowerLetters, ch)]]
LowerOf == [ch \in Range(UpperLetters) |-> LowerLetters[IndexIn(UpperLetters, ch)]]

\* String.prototype.toUpperCase / toLowerCase on one character
toUpperCase(ch) == IF ch \in DOMAIN UpperOf THEN UpperOf[ch] ELSE ch

toLowerCase(ch) == IF ch \in DOMAIN LowerOf THEN LowerOf[ch] ELSE ch

\* toLowerCase on a whole string
LowerCaseText(w) == [i \in DOMAIN w |-> toLowerCase(w[i])]

\* ------------------------------------------------------------------------
\* Garbling rules
\* ------------------------------------------------------------------------
PHONETIC_MAP ==
    [a |-> "e", b |-> "p", c |-> "k", d |-> "t", e |-> "i", f |-> "v",
     g |-> "j", i |-> "y", j |-> "g", k |-> "c", l |-> "r", m |-> "n",
     n |-> "m", o |-> "u", p |-> "b", q |-> "k", r |-> "l", s |-> "z",
     t |-> "d", u |-> "o", v |-> "w", w |-> "v", x |-> "z", y |-> "i",
     z |-> "s"]

\* A plausible slip: the replacement is never upper-cased.
GarbleReplacementNoCase(ch) ==
    IF toLowerCase(ch) \in DOMAIN PHONETIC_MAP
    THEN <<PHONETIC_MAP[toLowerCase(ch)]>>
    ELSE <<>>

\* Lines 79-83: the replacement character for ch, as a sequence of zero or
\* one characters (empty: the position is skipped).
GarbleReplacement(ch) ==
    LET lower == toLowerCase(ch) IN
    IF lower \notin DOMAIN PHONETIC_MAP THEN <<>>
    ELSE LET mapped == PHONETIC_MAP[lower]
             rep == IF ch = toUpperCase(ch) THEN toUpperCase(mapped) ELSE mapped
         IN IF rep = ch THEN <<>> ELSE <<rep>>

\* Set.prototype.add on a Set kept as the sequence of its members in
\* insertion order (the order Array.from yields)
SetAdd(members, x) == IF x \in Range(members) THEN members ELSE Append(members, x)

RECURSIVE SetAddAll(_, _)
SetAddAll(members, xs) ==
    IF xs = <<>> THEN members ELSE SetAddAll(SetAdd(members, Head(xs)), Tail(xs))

\* Lines 78-88: the body of the forEach callback for index idx, applied to
\* the results collected so far.
GarbleAt(word, idx, results) ==
    LET rep == GarbleReplacement(word[idx]) IN
    IF rep = <<>> THEN results
    ELSE LET candidate == [word EXCEPT ![idx] = rep[1]]
         IN IF candidate # word THEN SetAdd(results, candidate) ELSE results

RECURSIVE GarbleFrom(_, _, _)
GarbleFrom(word, idx, results) ==
    IF idx > Len(word) THEN results
    ELSE GarbleFrom(word, idx + 1, GarbleAt(word, idx, results))

\* function garbledVariants(word): the returned array
garbledVariants(word) == GarbleFrom(word, 1, <<>>)

\* ------------------------------------------------------------------------
\* SpecGarbler: garbledVariants applied to every word over GarbleAlphabet of
\* at most MaxWordLen characters
\* ------------------------------------------------------------------------
GarbleAlphabet == {"c", "a", "t", "x", "y", "z", "h", "K", "H", "-", "1"}

RECURSIVE WordsUpTo(_)
WordsUpTo(n) ==
    IF n = 0 THEN {<<>>}
    ELSE LET shorter == WordsUpTo(n - 1)
         IN shorter \cup {Append(w, ch) : w \in shorter, ch \in GarbleAlphabet}

GarbleInputs == WordsUpTo(MaxWordLen)

\* ------------------------------------------------------------------------
\* Crypto RNG
\* ------------------------------------------------------------------------
RECURSIVE Pow(_, _)
Pow(b, e) == IF e = 0 THEN 1 ELSE b * Pow(b, e - 1)

\* 0xffffffff, the largest value of one Uint32Array element; the model draws
\* RandomBits-bit values instead of 32-bit ones.
UINT_MAX == Pow(2, RandomBits) - 1

\* A plausible slip: plain modulo, every draw accepted.
SampleLimitNoRejection(max) == UINT_MAX + 1

\* Line 120: limit = Math.floor(0xffffffff / max) * max   (max > 0)
SampleLimit(max) == (UINT_MAX \div max) * max

\* Line 119: if (max <= 0) throw new RangeError
SampleThrows(max) == max <= 0

\* Line 126: the do-while leaves the loop when !(value >= limit)
DrawAccepted(value, limit) == ~(value >= limit)

\* The values getSecureRandomIndex(max) can return, max > 0: value % max for
\* every draw that leaves the loop.
IndexOutcomesOf(max) ==
    {v % max : v \in {d \in 0..UINT_MAX : DrawAccepted(d, SampleLimit(max))}}

IndexOutcomesTable == [max \in 1..(UINT_MAX + 1) |-> IndexOutcomesOf(max)]

IndexOutcomes(max) == IndexOutcomesTable[max]

\* ---- getSecureRandomIndex as a state machine, one step per draw ----
SamplerBounds == (-1)..(UINT_MAX + 1)

SamplerIdle ==
    /\ s_pc = "idle"
    /\ s_max = 1
    /\ s_limit = 0
    /\ s_value = 0
    /\ s_draws = 0

\* Lines 118-121: entry, the bound check and the limit
SamplerCall(max) ==
    /\ s_pc = "idle"
    /\ s_max' = max
    /\ s_draws' = 0
    /\ s_value' = 0
    /\ IF SampleThrows(max)
       THEN s_pc' = "thrown" /\ s_limit' = 0
       ELSE s_pc' = "loop" /\ s_limit' = SampleLimit(max)

\* Lines 122-126: one iteration of the do-while with draw v
SamplerDraw(v) ==
    /\ s_pc = "loop"
    /\ s_value' = v
    /\ s_draws' = IF s_draws < MaxDraws THEN s_draws + 1 ELSE s_draws
    /\ s_pc' = IF DrawAccepted(v, s_limit) THEN "returned" ELSE "loop"
    /\ UNCHANGED <<s_max, s_limit>>

\* Line 127: return value % max
SamplerResult == s_value % s_max

\* The caller goes on; the next call starts from the idle sampler.
SamplerDone ==
    /\ s_pc \in {"returned", "thrown"}
    /\ s_pc' = "idle"
    /\ s_max' = 1
    /\ s_limit' = 0
    /\ s_value' = 0
    /\ s_draws' = 0

\* ------------------------------------------------------------------------
\* JavaScript text and number primitives used by the source
\* ------------------------------------------------------------------------
NaNValue == [isNaN |-> TRUE, val |-> 0]
Num(n) == [isNaN |-> FALSE, val |-> n]

DigitValueOf == [ch \in Range(DigitChars) |-> IndexIn(DigitChars, ch) - 1]
IsDigit(ch) == ch \in DOMAIN DigitValueOf
DigitValue(ch) == DigitValueOf[ch]

RECURSIVE DigitPrefix(_)
DigitPrefix(t) ==
    IF t # <<>> /\ IsDigit(Head(t)) THEN <<Head(t)>> \o DigitPrefix(Tail(t)) ELSE <<>>

RECURSIVE DigitsValue(_, _)
DigitsValue(ds, acc) ==
    IF ds = <<>> THEN acc ELSE DigitsValue(Tail(ds), acc * 10 + DigitValue(Head(ds)))

\* parseInt(t, 10): optional sign, then the longest run of digits; NaN
\* when there is none.
parseInt(t) ==
    LET neg == t # <<>> /\ Head(t) = "-"
        body == IF t # <<>> /\ Head(t) \in {"-", "+"} THEN Tail(t) ELSE t
        ds == DigitPrefix(body)
    IN IF ds = <<>> THEN NaNValue
       ELSE Num(IF neg THEN 0 - DigitsValue(ds, 0) ELSE DigitsValue(ds, 0))

\* x || 0 for a number x
OrZero(x) == IF x.isNaN \/ x.val = 0 THEN 0 ELSE x.val

\* a > b for a possibly-NaN a and a number b
GreaterThan(x, n) == ~x.isNaN /\ x.val > n

RECURSIVE NatToString(_)
NatToString(n) ==
    IF n < 10 THEN <<DigitChars[n + 1]>>
    ELSE Append(NatToString(n \div 10), DigitChars[(n % 10) + 1])

\* String(n), BigInt.prototype.toString
IntToString(n) == IF n < 0 THEN <<"-">> \o NatToString(0 - n) ELSE NatToString(n)

RECURSIVE Join(_, _)
Join(parts, sep) ==
    IF parts = <<>> THEN <<>>
    ELSE IF Len(parts) = 1 THEN parts[1]
    ELSE parts[1] \o sep \o Join(Tail(parts), sep)

StartsWithAt(t, i, sep) ==
    /\ i + Len(sep) - 1 <= Len(t)
    /\ SubSeq(t, i, i + Len(sep) - 1) = sep

RECURSIVE SplitFrom(_, _, _, _)
SplitFrom(t, sep, i, cur) ==
    IF i > Len(t) THEN <<cur>>
    ELSE IF StartsWithAt(t, i, sep)
         THEN <<cur>> \o SplitFrom(t, sep, i + Len(sep), <<>>)
         ELSE SplitFrom(t, sep, i + 1, Append(cur, t[i]))

\* String.prototype.split(sep) for a string sep: the empty separator
\* splits into single characters.
Split(t, sep) ==
    IF sep = <<>> THEN [i \in DOMAIN t |-> <<t[i]>>]
    ELSE SplitFrom(t, sep, 1, <<>>)

\* Array.prototype.splice(pos, 0, x), pos 0-based
InsertAt(parts, pos, x) ==
    SubSeq(parts, 1, pos) \o <<x>> \o SubSeq(parts, pos + 1, Len(parts))

\* Line 374: toString() then a comma before every group of three digits
\* that is followed only by complete groups.
FormatThousands(n) ==
    LET ds == IntToString(n)
        len == Len(ds)
        piece(i) == IF i < len /\ (len - i) % 3 = 0 /\ IsDigit(ds[i])
                    THEN <<ds[i], ",">> ELSE <<ds[i]>>
        Build[i \in 0..len] == IF i = 0 THEN <<>> ELSE Build[i - 1] \o piece(i)
    IN Build[len]

\* ------------------------------------------------------------------------
\* Word lists
\* ------------------------------------------------------------------------
ListSeparators == {"\r", "\n", ","}
Whitespace == {" ", "\t"}

RECURSIVE SkipListSeparators(_, _)
SkipListSeparators(t, i) ==
    IF i <= Len(t) /\ t[i] \in ListSeparators THEN SkipListSeparators(t, i + 1) ELSE i

RECURSIVE SplitListFrom(_, _, _)
SplitListFrom(t, i, cur) ==
    IF i > Len(t) THEN <<cur>>
    ELSE IF t[i] \in ListSeparators
         THEN <<cur>> \o SplitListFrom(t, SkipListSeparators(t, i), <<>>)
         ELSE SplitListFrom(t, i + 1, Append(cur, t[i]))

RECURSIVE TrimStart(_)
TrimStart(t) == IF t # <<>> /\ Head(t) \in Whitespace THEN TrimStart(Tail(t)) ELSE t

RECURSIVE TrimEnd(_)
TrimEnd(t) ==
    IF t # <<>> /\ t[Len(t)] \in Whitespace THEN TrimEnd(SubSeq(t, 1, Len(t) - 1)) ELSE t

Trim(t) == TrimEnd(TrimStart(t))

RECURSIVE FilterSeen(_, _)
FilterSeen(ws, kept) ==
    IF ws = <<>> THEN kept
    ELSE LET w == Head(ws)
         IN FilterSeen(Tail(ws),
                       IF w = <<>> \/ w \in Range(kept) THEN kept ELSE Append(kept, w))

\* function parseWordList(text)
parseWordList(text) ==
    LET raw == SplitListFrom(text, 1, <<>>)
        clean == [i \in DOMAIN raw |-> LowerCaseText(Trim(raw[i]))]
    IN FilterSeen(clean, <<>>)

\* The built-in lists live in words-*.js, outside src/: small stand-ins.
WORDS_SHORTLIST == << <<"h","h">>, <<"c">> >>
WORDS_LONGLIST == << <<"h","h">>, <<"c">>, <<"k">> >>
WORDS_3LETTER == << <<"c">> >>

BUILTIN_LISTS == ("shortlist" :> WORDS_SHORTLIST) @@ ("longlist" :> WORDS_LONGLIST)
                 @@ ("3letter" :> WORDS_3LETTER)

\* function getEffectiveWordList(), reading activeWords and garbleMaxInput
RECURSIVE AddVariantsOf(_, _)
AddVariantsOf(list, members) ==
    IF list = <<>> THEN members
    ELSE AddVariantsOf(Tail(list), SetAddAll(members, garbledVariants(Head(list))))

getEffectiveWordList(active, gmText) ==
    LET garbleMax == OrZero(parseInt(gmText))
    IN IF garbleMax > 0 THEN AddVariantsOf(active, SetAddAll(<<>>, active)) ELSE active

\* function updateWordCountInfo(): the numbers shown in the label
WordCountInfoText(active, gmText) ==
    LET base == Len(active)
        garbleMax == OrZero(parseInt(gmText))
    IN IF garbleMax > 0
       THEN <<base, Len(getEffectiveWordList(active, gmText)) - base, garbleMax>>
       ELSE <<base>>

\* ------------------------------------------------------------------------
\* Passphrase generation
\* ------------------------------------------------------------------------
\* Line 158
Capitalize(w) == IF Len(w) > 0 THEN <<toUpperCase(w[1])>> \o Tail(w) ELSE w

\* Lines 142, 147: how many times each for loop runs
GarbledPicks(garbleMax) == IF garbleMax > 0 THEN garbleMax ELSE 0
BasePicks(count, garbleMax) == IF count > garbleMax THEN count - garbleMax ELSE 0

\* list[getSecureRandomIndex(list.length)], n times
PickSequences(list, n) ==
    IF n = 0 THEN {<<>>}
    ELSE {[i \in 1..n |-> list[f[i] + 1]] : f \in [1..n -> IndexOutcomes(Len(list))]}

Swap(p, i, j) == [p EXCEPT ![i] = p[j], ![j] = p[i]]

\* Lines 152-155, from 1-based position i down to 2
RECURSIVE ShuffleFrom(_, _)
ShuffleFrom(p, i) ==
    IF i <= 1 THEN {p}
    ELSE UNION {ShuffleFrom(Swap(p, i, j + 1), i - 1) : j \in IndexOutcomes(i)}

\* generatePassphrase throws (getSecureRandomIndex(0)) when a loop that
\* runs draws from an empty list.
generatePassphraseThrows(baseWords, count, garbleMax, active, gmText) ==
    \/ GarbledPicks(garbleMax) > 0 /\ Len(getEffectiveWordList(active, gmText)) = 0
    \/ BasePicks(count, garbleMax) > 0 /\ Len(baseWords) = 0

\* function generatePassphrase: every [words, phrase] it can return, words
\* being finalWords
generatePassphrase(baseWords, count, separator, garbleMax, active, gmText) ==
    LET garbledWords == getEffectiveWordList(active, gmText)
        picked == {g \o b : g \in PickSequences(garbledWords, GarbledPicks(garbleMax)),
                            b \in PickSequences(baseWords, BasePicks(count, garbleMax))}
        shuffled == UNION {ShuffleFrom(p, Len(p)) : p \in picked}
    IN {[words |-> [i \in DOMAIN p |-> Capitalize(p[i])],
         phrase |-> Join([i \in DOMAIN p |-> Capitalize(p[i])], separator)]
          : p \in shuffled}

\* Number of getSecureRandomIndex calls generatePassphrase makes
generatePassphraseDraws(count, garbleMax) ==
    LET n == GarbledPicks(garbleMax) + BasePicks(count, garbleMax)
    IN n + (IF n > 1 THEN n - 1 ELSE 0)

\* Lines 315-328: the digit step applied to one phrase; digit -1 and
\* pos -1 stand for "not drawn".
DigitStep(passphrase, separator, includeSetting) ==
    IF includeSetting = "none"
    THEN {[passphrase |-> passphrase, digit |-> -1, pos |-> -1, slots |-> 0]}
    ELSE IF includeSetting = "end"
    THEN {[passphrase |-> passphrase \o separator \o IntToString(digit),
           digit |-> digit, pos |-> -1, slots |-> 0] : digit \in IndexOutcomes(10)}
    ELSE IF includeSetting = "anywhere"
    THEN LET parts == Split(passphrase, separator)
         IN {[passphrase |-> Join(InsertAt(parts, pos, IntToString(digit)), separator),
              digit |-> digit, pos |-> pos, slots |-> Len(parts) + 1]
               : digit \in IndexOutcomes(10), pos \in IndexOutcomes(Len(parts) + 1)}
    ELSE {[passphrase |-> passphrase, digit |-> digit, pos |-> -1, slots |-> 0]
            : digit \in IndexOutcomes(10)}

DigitStepDraws(includeSetting) ==
    IF includeSetting = "none" THEN 0
    ELSE IF includeSetting = "anywhere" THEN 2 ELSE 1

\* ------------------------------------------------------------------------
\* Number of possible passphrases (lines 345-372)
\* ------------------------------------------------------------------------
Min(a, b) == IF a < b THEN a ELSE b
Max(a, b) == IF a > b THEN a ELSE b

\* The for loop of binomialBig from i on, k already reduced to min(k, n-k);
\* BigInt division truncates.
RECURSIVE BinomialLoop(_, _, _, _)
BinomialLoop(n, k, i, res) ==
    IF i > k THEN res
    ELSE BinomialLoop(n, k, i + 1, (res * (n - k + i)) \div i)

\* A plausible slip: divide before multiplying.
binomialBigDivideFirst(n, k) ==
    LET kk == Min(k, n - k)
        Loop[i \in 0..Max(kk, 0)] ==
            IF i = 0 THEN 1 ELSE (Loop[i - 1] \div i) * (n - kk + i)
    IN IF k < 0 \/ k > n THEN 0 ELSE Loop[kk]

\* function binomialBig(n, k)
binomialBig(n, k) ==
    IF k < 0 \/ k > n THEN 0
    ELSE BinomialLoop(n, Min(k, n - k), 1, 1)

\* The remainders of the divisions binomialBig performs are all zero
RECURSIVE BinomialLoopExact(_, _, _, _)
BinomialLoopExact(n, k, i, res) ==
    \/ i > k
    \/ /\ (res * (n - k + i)) % i = 0
       /\ BinomialLoopExact(n, k, i + 1, (res * (n - k + i)) \div i)

binomialBigExact(n, k) ==
    (k < 0 \/ k > n) \/ BinomialLoopExact(n, Min(k, n - k), 1, 1)

\* Lines 360-364: the sum from k on
RECURSIVE PossibleSum(_, _, _, _, _)
PossibleSum(Bn, Vn, count, maxG, k) ==
    IF k > maxG THEN 0
    ELSE binomialBig(count, k) * Pow(Vn, k) * Pow(Bn, count - k)
         + PossibleSum(Bn, Vn, count, maxG, k + 1)

\* Lines 355-372: possible, from activeWords.length, wordsForGen.length,
\* count, garbleMax and the include setting
possibleCount(Bn, En, count, garbleMax, includeSetting) ==
    LET Vn == IF En >= Bn THEN En - Bn ELSE 0
        maxG == Max(0, Min(garbleMax, count))
        sum == PossibleSum(Bn, Vn, count, maxG, 0)
    IN IF includeSetting = "none" THEN sum
       ELSE IF includeSetting = "anywhere" THEN sum * 10 * (count + 1)
       ELSE sum * 10

\* ------------------------------------------------------------------------
\* Strength in bits (lines 377-382).  A BigInt is its sequence of binary
\* digits, most significant first, without leading zeros.
\* ------------------------------------------------------------------------
MantissaBits == 53   \* significand of a Number (IEEE 754 binary64)
MaxExponent == 1023  \* largest binary exponent of a finite Number

RECURSIVE BigFromNat(_)
BigFromNat(n) == IF n = 0 THEN <<>> ELSE Append(BigFromNat(n \div 2), n % 2)

AllZero(bits) == \A i \in DOMAIN bits : bits[i] = 0
AllOne(bits) == \A i \in DOMAIN bits : bits[i] = 1

\* Number(possible): the nearest Number, ties to even, Infinity beyond the
\* largest finite one.  A finite value is sig * 2^(exp - Len(sig) + 1), sig
\* holding at most MantissaBits binary digits.
NumberOfBigInt(bits) ==
    LET len == Len(bits) IN
    IF len = 0 THEN [kind |-> "zero", exp |-> 0, sig |-> <<>>]
    ELSE IF len <= MantissaBits THEN [kind |-> "finite", exp |-> len - 1, sig |-> bits]
    ELSE LET top == SubSeq(bits, 1, MantissaBits)
             guard == bits[MantissaBits + 1]
             sticky == ~AllZero(SubSeq(bits, MantissaBits + 2, len))
             roundUp == guard = 1 /\ (sticky \/ top[MantissaBits] = 1)
             carry == roundUp /\ AllOne(top)
             \* top + 1 when it does not carry out: the trailing ones
             \* become zeros and the zero before them becomes one
             lastZero == CHOOSE i \in DOMAIN top :
                            top[i] = 0 /\ \A j \in (i + 1)..MantissaBits : top[j] = 1
             bumped == [i \in DOMAIN top |->
                          IF i < lastZero THEN top[i] ELSE IF i = lastZero THEN 1 ELSE 0]
             exp == IF carry THEN len ELSE len - 1
             sig == IF carry THEN <<1>> ELSE IF roundUp THEN bumped ELSE top
         IN IF exp > MaxExponent
            THEN [kind |-> "Infinity", exp |-> 0, sig |-> <<>>]
            ELSE [kind |-> "finite", exp |-> exp, sig |-> sig]

\* Number of leading ones of a sequence of binary digits
RECURSIVE LeadingOnes(_)
LeadingOnes(bits) ==
    IF bits # <<>> /\ Head(bits) = 1 THEN 1 + LeadingOnes(Tail(bits)) ELSE 0

\* The Numbers just below the integer n >= 2 are 2^-HalfGapBelow(n) * 2 apart:
\* a real closer than 2^-HalfGapBelow(n) to n rounds to n.
HalfGapBelow(n) ==
    LET digits == BigFromNat(n)
    IN IF AllZero(Tail(digits)) THEN MantissaBits + 2 - Len(digits)
       ELSE MantissaBits + 1 - Len(digits)

\* Math.floor(Math.log2(x)).toString() for x = Number(possible).  A finite
\* x lies in [2^exp, 2^(exp+1)).  Math.log2 rounds its result to a Number:
\* for x = 2^(exp+1) * (1 - eps) the logarithm is exp + 1 - eps / ln 2, which
\* rounds to exp + 1 when eps is small against the gap between the Numbers
\* below exp + 1.  With j leading ones, 2^-(j+1) < eps <= 2^-j.
Log2FloorOutcomes(x) ==
    IF x.kind = "Infinity" THEN {[kind |-> "Infinity", val |-> 0]}
    ELSE IF x.kind = "zero" THEN {[kind |-> "-Infinity", val |-> 0]}
    ELSE IF x.exp = 0 \/ AllZero(Tail(x.sig)) THEN {[kind |-> "int", val |-> x.exp]}
    ELSE LET j == LeadingOnes(x.sig)
             q == HalfGapBelow(x.exp + 1)
         IN IF j > q THEN {[kind |-> "int", val |-> x.exp + 1]}
            ELSE IF j = q /\ Len(x.sig) > j
            THEN {[kind |-> "int", val |-> x.exp], [kind |-> "int", val |-> x.exp + 1]}
            ELSE {[kind |-> "int", val |-> x.exp]}

\* Lines 379-380 for possible given by its binary digits
StrengthOutcomes(bits) == Log2FloorOutcomes(NumberOfBigInt(bits))

\* ------------------------------------------------------------------------
\* The page
\* ------------------------------------------------------------------------
\* index.html is outside src/: the controls' initial values are those of the
\* README (the separator "-", a digit at the end, the short list, no
\* garbling).  The initial word count (4 on the page) is scaled to the
\* stand-in lists.
InitialWordCount == 2
InitialSeparator == <<"-">>
InitialInclude == "end"
InitialList == "shortlist"

NoMsg == [kind |-> "", have |-> 0, want |-> 0]

NoGen == [status |-> "none", count |-> NaNValue, garbleMax |-> 0, baseSize |-> 0,
          effSize |-> 0, words |-> <<>>, digit |-> -1, pos |-> -1, slots |-> 0,
          draws |-> 0]

\* What the user can type or select
WordCountTexts == {<<>>, <<"0">>, <<"1">>, <<"2">>}
GarbleMaxTexts == {<<>>, <<"-", "1">>, <<"0">>, <<"1">>, <<"2">>}
SeparatorTexts == {<<"-">>, <<>>, <<"h">>}
IncludeSettings == {"none", "end", "anywhere"}
ListKeys == {"shortlist", "longlist", "3letter", "custom"}
TextareaTexts == {<<>>, <<"H", ",", "h", "\n", " ", "1">>}

\* A plausible slip: the check of the list size against the count is missing.
ValidationMessageNoSizeCheck(count, wordsForGen) ==
    IF count.isNaN \/ count.val < 1
    THEN [kind |-> "Word count must be at least 1.", have |-> 0, want |-> 0]
    ELSE IF Len(wordsForGen) = 0
    THEN [kind |-> "The word list is empty.", have |-> 0, want |-> 0]
    ELSE NoMsg

\* Lines 298-309: the message of the first failing check, NoMsg when all pass
ValidationMessage(count, wordsForGen) ==
    IF count.isNaN \/ count.val < 1
    THEN [kind |-> "Word count must be at least 1.", have |-> 0, want |-> 0]
    ELSE IF Len(wordsForGen) = 0
    THEN [kind |-> "The word list is empty.", have |-> 0, want |-> 0]
    ELSE IF Len(wordsForGen) < count.val
    THEN [kind |-> "Not enough words", have |-> Len(wordsForGen), want |-> count.val]
    ELSE NoMsg

\* Lines 385-398: <<minLen, maxLen>>
LengthRange(wordsForGen, count, separator, includeSetting) ==
    LET lengths == {Len(wordsForGen[i]) : i \in DOMAIN wordsForGen}
        minWord == CHOOSE m \in lengths : \A l \in lengths : m <= l
        maxWord == CHOOSE m \in lengths : \A l \in lengths : m >= l
        seps == IF separator # <<>> THEN Len(separator) * (count - 1) ELSE 0
        digit == IF includeSetting # "none" THEN Len(separator) + 1 ELSE 0
    IN <<minWord * count + seps + digit, maxWord * count + seps + digit>>

displayVars == <<passphraseOutput, passphraseCount, strengthText, currentLength,
                 minLength, maxLength>>

\* function loadBuiltinList(key), key one of BUILTIN_LISTS: the new
\* wordTextarea.value
BuiltinText(key) == Join(BUILTIN_LISTS[key], <<"\n">>)

\* Lines 338-402: what a successful generateAndDisplay shows besides the
\* passphrase: the count, the outcomes of the strength, the length range
Statistics(active, wordsForGen, count, separator, garbleMax, includeSetting) ==
    LET possible == possibleCount(Len(active), Len(wordsForGen), count, garbleMax,
                                  includeSetting)
    IN [possible |-> possible,
        countText |-> FormatThousands(possible),
        strengths |-> StrengthOutcomes(BigFromNat(possible)),
        range |-> LengthRange(wordsForGen, count, separator, includeSetting)]

\* Lines 313-328: every outcome of generatePassphrase followed by the digit
\* step, with the number of getSecureRandomIndex calls made
GenerationOutcomes(active, count, separator, garbleMax, gmText, includeSetting) ==
    LET draws == generatePassphraseDraws(count, garbleMax) + DigitStepDraws(includeSetting)
    IN UNION {{[passphrase |-> d.passphrase, words |-> g.words, digit |-> d.digit,
                pos |-> d.pos, slots |-> d.slots, draws |-> draws]
                 : d \in DigitStep(g.phrase, separator, includeSetting)}
               : g \in generatePassphrase(active, count, separator, garbleMax,
                                          active, gmText)}

\* function generateAndDisplay(), lines 288-403, run with the control values
\* k: every [active, info, msg, gen, show] it can end with.  active is the
\* new activeWords, info the word-count label, msg the validation message,
\* gen what the call did (see NoGen), show the fields it displays.
NoShow == [passphrase |-> <<>>, countText |-> <<>>,
           strength |-> [kind |-> "int", val |-> 0], range |-> <<0, 0>>]

CallResults(k) ==
    LET active == parseWordList(k.text)
        wordsForGen == getEffectiveWordList(active, k.gmText)
        count == parseInt(k.wcText)
        garbleMax == OrZero(parseInt(k.gmText))
        called == [NoGen EXCEPT !.count = count, !.garbleMax = garbleMax,
                                !.baseSize = Len(active), !.effSize = Len(wordsForGen)]
        ended(msg, gen, show) ==
            [active |-> active, info |-> WordCountInfoText(active, k.gmText),
             msg |-> msg, gen |-> gen, show |-> show]
    IN IF ValidationMessage(count, wordsForGen) # NoMsg
       THEN {ended(ValidationMessage(count, wordsForGen),
                   [called EXCEPT !.status = "invalid"], NoShow)}
       ELSE IF generatePassphraseThrows(active, count.val, garbleMax, active, k.gmText)
       THEN {ended(NoMsg, [called EXCEPT !.status = "threw"], NoShow)}
       ELSE LET stats == Statistics(active, wordsForGen, count.val, k.separator,
                                    garbleMax, k.includeSetting)
            IN {ended(NoMsg,
                      [called EXCEPT
                          !.status = "ok", !.words = o.words, !.digit = o.digit,
                          !.pos = o.pos, !.slots = o.slots, !.draws = o.draws],
                      [passphrase |-> o.passphrase, countText |-> stats.countText,
                       strength |-> strength, range |-> stats.range])
                  : o \in GenerationOutcomes(active, count.val, k.separator, garbleMax,
                                             k.gmText, k.includeSetting),
                    strength \in stats.strengths}

\* Every value the controls can hold
WordCountValues == WordCountTexts \cup {IntToString(InitialWordCount)}
GarbleMaxValues ==
    GarbleMaxTexts \cup {<<"0">>}
                   \cup {IntToString(OrZero(parseInt(t))) : t \in WordCountValues}
SeparatorValues == SeparatorTexts \cup {InitialSeparator}
TextareaValues == TextareaTexts \cup {BuiltinText(key) : key \in DOMAIN BUILTIN_LISTS}

\* CallResults tabulated over the control values (@@ makes TLC compute the
\* table once instead of at every step).
CallTable ==
    [k \in [wcText : WordCountValues, gmText : GarbleMaxValues,
            separator : SeparatorValues, includeSetting : IncludeSettings,
            text : TextareaValues] |-> CallResults(k)] @@ <<>>

\* A call of generateAndDisplay() as a step of the page
generateAndDisplay(wcText, gmText, separator, includeSetting, text) ==
    \E r \in CallTable[[wcText |-> wcText, gmText |-> gmText, separator |-> separator,
                        includeSetting |-> includeSetting, text |-> text]] :
       /\ activeWords' = r.active
       /\ wordCountInfo' = r.info
       /\ validationMsg' = r.msg
       /\ lastGen' = r.gen
       /\ IF r.gen.status = "ok"
          THEN /\ passphraseOutput' = r.show.passphrase
               /\ currentLength' = Len(r.show.passphrase)
               /\ passphraseCount' = r.show.countText
               /\ strengthText' = r.show.strength
               /\ minLength' = r.show.range[1]
               /\ maxLength' = r.show.range[2]
          ELSE UNCHANGED displayVars

AppStart ==
    /\ wordCountValue = IntToString(InitialWordCount)
    /\ garbleMaxValue = <<"0">>
    /\ separatorValue = InitialSeparator
    /\ includeNumberValue = InitialInclude
    /\ builtinListValue = InitialList
    /\ wordTextareaValue = BuiltinText(InitialList)
    /\ activeWords = BUILTIN_LISTS[InitialList]
    /\ wordCountInfo = WordCountInfoText(BUILTIN_LISTS[InitialList], <<"0">>)
    /\ validationMsg = NoMsg
    /\ passphraseOutput = <<>>
    /\ passphraseCount = <<>>
    /\ strengthText = [kind |-> "int", val |-> 0]
    /\ currentLength = 0
    /\ minLength = 0
    /\ maxLength = 0
    /\ started = FALSE
    /\ lastGen = NoGen
    /\ events = 0

NoProbe == [fn |-> "none"]

\* ---- event handlers ----
\* A user event is handled once the script has run
UserEvent ==
    /\ started
    /\ events < MaxEvents
    /\ events' = events + 1
    /\ UNCHANGED <<samplerVars, probe>>

\* Line 462: the script ends by clicking the generate button
Startup ==
    /\ ~started
    /\ started' = TRUE
    /\ events' = events
    /\ UNCHANGED <<samplerVars, probe>>
    /\ UNCHANGED <<wordCountValue, garbleMaxValue, separatorValue, includeNumberValue,
                   builtinListValue, wordTextareaValue>>
    /\ generateAndDisplay(wordCountValue, garbleMaxValue, separatorValue,
                          includeNumberValue, wordTextareaValue)

\* Line 406 (and the Enter key, lines 454-458)
GenerateClick ==
    /\ UserEvent
    /\ UNCHANGED <<wordCountValue, garbleMaxValue, separatorValue, includeNumberValue,
                   builtinListValue, wordTextareaValue, started>>
    /\ generateAndDisplay(wordCountValue, garbleMaxValue, separatorValue,
                          includeNumberValue, wordTextareaValue)

\* Lines 278-284: the second listener of the word-count input
ClampedGarbleMax(wcText, gmText) ==
    LET maxVal == OrZero(parseInt(wcText))
    IN IF GreaterThan(parseInt(gmText), maxVal) THEN IntToString(maxVal) ELSE gmText

\* The word-count input event: its listeners run in the order they were
\* added, generateAndDisplay (line 253) and then the clamp (line 278).
WordCountInput(text) ==
    /\ UserEvent
    /\ wordCountValue' = text
    /\ garbleMaxValue' = ClampedGarbleMax(text, garbleMaxValue)
    /\ UNCHANGED <<separatorValue, includeNumberValue, builtinListValue,
                   wordTextareaValue, started>>
    /\ generateAndDisplay(text, garbleMaxValue, separatorValue, includeNumberValue,
                          wordTextareaValue)

\* Line 254
SeparatorInput(text) ==
    /\ UserEvent
    /\ separatorValue' = text
    /\ UNCHANGED <<wordCountValue, garbleMaxValue, includeNumberValue,
                   builtinListValue, wordTextareaValue, started>>
    /\ generateAndDisplay(wordCountValue, garbleMaxValue, text, includeNumberValue,
                          wordTextareaValue)

\* Line 255
IncludeNumberChange(setting) ==
    /\ UserEvent
    /\ includeNumberValue' = setting
    /\ UNCHANGED <<wordCountValue, garbleMaxValue, separatorValue,
                   builtinListValue, wordTextareaValue, started>>
    /\ generateAndDisplay(wordCountValue, garbleMaxValue, separatorValue, setting,
                          wordTextareaValue)

\* Lines 256-265
WordTextareaInput(text) ==
    /\ UserEvent
    /\ wordTextareaValue' = text
    /\ builtinListValue' = "custom"
    /\ UNCHANGED <<wordCountValue, garbleMaxValue, separatorValue,
                   includeNumberValue, started>>
    /\ generateAndDisplay(wordCountValue, garbleMaxValue, separatorValue,
                          includeNumberValue, text)

\* Lines 269-276: the clamp, updateWordCountInfo (overwritten by the
\* generateAndDisplay that follows) and generateAndDisplay
GarbleMaxInput(text) ==
    /\ UserEvent
    /\ UNCHANGED <<wordCountValue, separatorValue, includeNumberValue,
                   builtinListValue, wordTextareaValue, started>>
    /\ LET clamped == ClampedGarbleMax(wordCountValue, text)
       IN /\ garbleMaxValue' = clamped
          /\ generateAndDisplay(wordCountValue, clamped, separatorValue,
                                includeNumberValue, wordTextareaValue)

\* Lines 242-250
BuiltinListChange(key) ==
    /\ UserEvent
    /\ builtinListValue' = key
    /\ UNCHANGED <<wordCountValue, garbleMaxValue, separatorValue,
                   includeNumberValue, started>>
    /\ LET text == IF key = "custom" THEN wordTextareaValue ELSE BuiltinText(key)
       IN /\ wordTextareaValue' = text
          /\ generateAndDisplay(wordCountValue, garbleMaxValue, separatorValue,
                                includeNumberValue, text)

\* Lines 435-439: no generateAndDisplay; the label is computed before the
\* garble maximum is set to 0.
ResetClick ==
    /\ UserEvent
    /\ builtinListValue' = "shortlist"
    /\ activeWords' = BUILTIN_LISTS["shortlist"]
    /\ wordTextareaValue' = BuiltinText("shortlist")
    /\ wordCountInfo' = WordCountInfoText(BUILTIN_LISTS["shortlist"], garbleMaxValue)
    /\ validationMsg' = NoMsg
    /\ garbleMaxValue' = <<"0">>
    /\ lastGen' = NoGen
    /\ UNCHANGED <<wordCountValue, separatorValue, includeNumberValue, started,
                   displayVars>>

Init ==
    /\ AppStart
    /\ SamplerIdle
    /\ probe = NoProbe

Next ==
    \/ Startup
    \/ GenerateClick
    \/ \E text \in WordCountTexts : WordCountInput(text)
    \/ \E text \in SeparatorTexts : SeparatorInput(text)
    \/ \E setting \in IncludeSettings : IncludeNumberChange(setting)
    \/ \E text \in TextareaTexts : WordTextareaInput(text)
    \/ \E text \in GarbleMaxTexts : GarbleMaxInput(text)
    \/ \E key \in ListKeys : BuiltinListChange(key)
    \/ ResetClick

Spec == Init /\ [][Next]_vars

\* ------------------------------------------------------------------------
\* SpecSampler: getSecureRandomIndex called with every bound of SamplerBounds
\* ------------------------------------------------------------------------
SamplerInit ==
    /\ AppStart
    /\ SamplerIdle
    /\ probe = NoProbe

Call == \E max \in SamplerBounds : SamplerCall(max) /\ UNCHANGED <<appVars, probe>>
Draw == \E v \in 0..UINT_MAX : SamplerDraw(v) /\ UNCHANGED <<appVars, probe>>
Done == SamplerDone /\ UNCHANGED <<appVars, probe>>

SamplerNext == Call \/ Draw \/ Done

SpecSampler == SamplerInit /\ [][SamplerNext]_vars

\* ------------------------------------------------------------------------
\* Function-level specifications: Init draws the argument, Apply applies
\* the function.
\* ------------------------------------------------------------------------
ProbeInit(fn, args) ==
    /\ AppStart
    /\ SamplerIdle
    /\ probe \in {[fn |-> fn, arg |-> a, done |-> FALSE, out |-> <<>>] : a \in args}

\* The function returns r
ProbeReturn(r) ==
    /\ ~probe.done
    /\ probe' = [probe EXCEPT !.done = TRUE, !.out = <<r>>]
    /\ UNCHANGED <<appVars, samplerVars>>

\* ---- SpecGarbler ----
GarblerInit == ProbeInit("garbledVariants", GarbleInputs)
GarblerApply == ProbeReturn(garbledVariants(probe.arg))
SpecGarbler == GarblerInit /\ [][GarblerApply]_vars

\* ---- SpecCounter ----
CounterInputs ==
    [Bn : 0..MaxBaseSize, En : 0..MaxEffectiveSize, count : 1..CounterMaxCount,
     garbleMax : (-1)..(CounterMaxCount + 1), includeSetting : IncludeSettings]
CounterInit == ProbeInit("possible", CounterInputs)
CounterApply ==
    ProbeReturn(possibleCount(probe.arg.Bn, probe.arg.En, probe.arg.count,
                              probe.arg.garbleMax, probe.arg.includeSetting))
SpecCounter == CounterInit /\ [][CounterApply]_vars

\* ---- SpecStrength ----
\* exactCount = 2^e - 1, 2^e and 2^e + 1 for exponents e that are small, around
\* the significand width and around the largest exponent.
Ones(n) == [i \in 1..n |-> 1]
Zeros(n) == [i \in 1..n |-> 0]
StrengthExponents ==
    (1..MaxSmallExp) \cup ((MantissaBits - 2)..(MantissaBits + 2))
                    \cup ((MaxExponent - 1)..(MaxExponent + 2))
StrengthInputs ==
    {Ones(e) : e \in StrengthExponents}
      \cup {<<1>> \o Zeros(e) : e \in StrengthExponents}
      \cup {<<1>> \o Zeros(e - 1) \o <<1>> : e \in StrengthExponents}
StrengthInit == ProbeInit("strength", StrengthInputs)
StrengthApply == \E strength \in StrengthOutcomes(probe.arg) : ProbeReturn(strength)
SpecStrength == StrengthInit /\ [][StrengthApply]_vars

\* ========================================================================
\* Properties
\* ========================================================================

\* ---- C8 (SpecGarbler) ----
\* The replacement the claim describes: the table entry of the lowercase
\* letter, in the case of the original character.
InOriginalCase(ch) ==
    IF ch \in Range(UpperLetters)
    THEN UpperOf[PHONETIC_MAP[LowerOf[ch]]]
    ELSE PHONETIC_MAP[ch]

Substitutable(ch) ==
    \/ ch \in DOMAIN PHONETIC_MAP
    \/ ch \in Range(UpperLetters) /\ LowerOf[ch] \in DOMAIN PHONETIC_MAP

SingleSubstitutions(word) ==
    {[word EXCEPT ![i] = InOriginalCase(word[i])] :
        i \in {j \in DOMAIN word : Substitutable(word[j])}}

DifferingPositions(v, w) == {i \in DOMAIN w : v[i] # w[i]}

AcceptedDrawsFor(r) ==
    Cardinality({v \in 0..UINT_MAX : DrawAccepted(v, s_limit) /\ v % s_max = r})

\* C5: getSecureRandomIndex(bound), bound > 0, returns r with 0 <= r < bound,
\* and every value of [0, bound) is the result of the same number of accepted
\* draws (no modulo bias).
C5_InRangeUnbiased ==
    /\ s_pc = "returned" => SamplerResult \in 0..(s_max - 1)
    /\ s_pc \in {"loop", "returned"} =>
          /\ s_max > 0
          /\ \A r \in 0..(s_max - 1) : AcceptedDrawsFor(r) = AcceptedDrawsFor(0)

\* A call with a bound that does not divide the number of draws returned its
\* largest value after a rejected draw.
C5_Witness ==
    /\ s_pc = "returned"
    /\ s_max = 3
    /\ s_draws = 2
    /\ SamplerResult = 2

\* ---- C6 (SpecSampler) ----
\* C6: for every bound > 0 the limit computed by getSecureRandomIndex is
\* positive, so that at least one draw is accepted and the rejection loop can
\* end; for bound <= 0 the call throws without looping and without a draw.
C6_LimitPositiveForEveryBound ==
    /\ (s_pc = "loop" /\ s_max > 0) => s_limit > 0
    /\ s_pc = "thrown" => (s_max <= 0 /\ s_draws = 0)
    /\ s_pc \in {"loop", "returned"} => s_max > 0

\* ---- C3 (SpecCounter) ----
\* The binomial coefficient by Pascal's rule
RECURSIVE ExactBinomial(_, _)
ExactBinomial(n, k) ==
    IF k < 0 \/ k > n THEN 0
    ELSE IF k = 0 \/ k = n THEN 1
    ELSE ExactBinomial(n - 1, k - 1) + ExactBinomial(n - 1, k)

RECURSIVE SumOver(_, _)
SumOver(ks, term) ==
    IF ks = {} THEN 0
    ELSE LET k == CHOOSE x \in ks : TRUE
         IN term[k] + SumOver(ks \ {k}, term)

\* Sum over k from 0 to upper of C(wordCount,k) * V^k * B^(wordCount-k)
TermSum(Bn, Vn, wordCount, upper) ==
    SumOver(0..upper, [k \in 0..upper |->
        ExactBinomial(wordCount, k) * Pow(Vn, k) * Pow(Bn, wordCount - k)])

DigitMultiplier(wordCount, includeSetting) ==
    CASE includeSetting = "none" -> 1
      [] includeSetting = "end" -> 10
      [] includeSetting = "anywhere" -> 10 * (wordCount + 1)

ExclusiveVariants(a) == IF a.En >= a.Bn THEN a.En - a.Bn ELSE 0

BinomialAsClaimed(n) ==
    \A k \in (-1)..(n + 1) :
        /\ binomialBig(n, k) = ExactBinomial(n, k)
        /\ binomialBigExact(n, k)

\* C3 as stated: the count is the sum over k from 0 to
\* min(garbleMax, wordCount), times the digit multiplier.
C3_SumToMinGarbleMax ==
    probe.done =>
        LET a == probe.arg
        IN probe.out[1] =
             TermSum(a.Bn, ExclusiveVariants(a), a.count, Min(a.garbleMax, a.count))
               * DigitMultiplier(a.count, a.includeSetting)

\* C3 amended: for all B >= 0, V >= 0, wordCount >= 1, garbleMax and include
\* setting, the count is the sum over k from 0 to
\* max(0, min(garbleMax, wordCount)) of C(wordCount,k) * V^k * B^(wordCount-k),
\* times 1 for none, 10 for at the end, 10 * (wordCount+1) for anywhere;
\* binomialBig is the exact binomial coefficient (0 for k < 0 or k > n) and
\* each of its divisions is exact; B=3,V=0,wordCount=4,garbleMax=0,none gives
\* 81 and B=3,V=2,wordCount=2,garbleMax=1,end gives 210.
C3_SumToClampedGarbleMax ==
    probe.done =>
        LET a == probe.arg
        IN /\ probe.out[1] =
                TermSum(a.Bn, ExclusiveVariants(a), a.count,
                        Max(0, Min(a.garbleMax, a.count)))
                  * DigitMultiplier(a.count, a.includeSetting)
           /\ BinomialAsClaimed(a.count)
           /\ a = [Bn |-> 3, En |-> 3, count |-> 4, garbleMax |-> 0,
                   includeSetting |-> "none"] => probe.out[1] = 81
           /\ a = [Bn |-> 3, En |-> 5, count |-> 2, garbleMax |-> 1,
                   includeSetting |-> "end"] => probe.out[1] = 210

\* The count of a configuration with two garbled positions out of four has
\* been computed.
C3_Witness ==
    /\ probe.done
    /\ probe.arg = [Bn |-> 2, En |-> 3, count |-> 4, garbleMax |-> 2,
                    includeSetting |-> "anywhere"]
    /\ probe.out[1] = (16 + 4 * 8 + 6 * 4) * 50

\* ---- C10 (SpecStrength) ----
\* C10: for every exactCount >= 1 the displayed strength is finite and equals
\* floor(log2(exactCount)) = bitLength(exactCount) - 1.
C10_StrengthIsBitLengthMinusOne ==
    probe.done =>
        /\ probe.out[1].kind = "int"
        /\ probe.out[1].val = Len(probe.arg) - 1

\* ---- Claims about the page (Spec).  lastGen records the most recent call
\* of generateAndDisplay: the count and garble maximum it read, the sizes of
\* the lists, and what generation returned. ----

\* generatePassphrase was called with 0 <= garbleMax <= count and returned
GeneratedInRange ==
    /\ lastGen.status = "ok"
    /\ 0 <= lastGen.garbleMax
    /\ lastGen.garbleMax <= lastGen.count.val

\* C1: for every configuration with wordCount >= 1, also when
\* garbleMax > wordCount or garbleMax < 0, generatePassphrase returns a phrase
\* of exactly wordCount words.
C1_ExactlyWordCountWords ==
    lastGen.status = "ok" => Len(lastGen.words) = lastGen.count.val

\* C2: after any sequence of UI events, every invocation of
\* generatePassphrase receives garbleMax <= wordCount.
C2_GarbleMaxAtMostWordCount ==
    lastGen.status \in {"ok", "threw"} => lastGen.garbleMax <= lastGen.count.val

\* Every string the last call could have displayed
PossibleOutputs ==
    {o.passphrase : o \in GenerationOutcomes(activeWords, lastGen.count.val,
                                              separatorValue, lastGen.garbleMax,
                                              IntToString(lastGen.garbleMax),
                                              includeNumberValue)}

\* C4: for every base list, separator, include setting and configuration with
\* 0 <= garbleMax <= wordCount that passes validation, the displayed count is
\* the number of distinct strings generation can produce.
C4_CountIsNumberOfOutputs ==
    GeneratedInRange =>
        passphraseCount = FormatThousands(Cardinality(PossibleOutputs))

\* C7: with the digit anywhere, for every separator (the empty one and those
\* occurring inside words included) the digit is one standalone token at a
\* position in [0, wordCount], wordCount + 1 slots, and the capitalized
\* words stand unchanged and in their shuffled order around it.
C7_DigitBetweenWholeWords ==
    (GeneratedInRange /\ includeNumberValue = "anywhere") =>
        /\ lastGen.slots = lastGen.count.val + 1
        /\ lastGen.pos \in 0..lastGen.count.val
        /\ passphraseOutput =
              Join(InsertAt(lastGen.words, lastGen.pos, IntToString(lastGen.digit)),
                   separatorValue)

\* The conditions under which the claim says validation fails
FailsValidation(g) ==
    \/ g.count.isNaN
    \/ g.count.val < 1
    \/ g.effSize = 0
    \/ g.effSize < g.count.val

\* A step in which generateAndDisplay ran and its validation failed
FailedCall ==
    /\ events' # events \/ started' # started
    /\ lastGen'.status # "none"
    /\ FailsValidation(lastGen')

FailedCallWritesNothing ==
    FailedCall =>
        /\ UNCHANGED displayVars
        /\ lastGen'.status = "invalid"
        /\ lastGen'.draws = 0
        /\ validationMsg' # NoMsg

\* What is on display after a successful call is the count of that call and
\* the length of that passphrase; nothing is on display before the first one.
ShownByOneCall ==
    /\ lastGen.status = "ok" =>
          /\ passphraseCount =
               FormatThousands(possibleCount(lastGen.baseSize, lastGen.effSize,
                                             lastGen.count.val, lastGen.garbleMax,
                                             includeNumberValue))
          /\ currentLength = Len(passphraseOutput)
    /\ (passphraseOutput = <<>>) <=> (passphraseCount = <<>>)

WrittenTogether ==
    (passphraseOutput' # passphraseOutput \/ passphraseCount' # passphraseCount) =>
        /\ lastGen'.status = "ok"
        /\ ~FailsValidation(lastGen')
        /\ currentLength' = Len(passphraseOutput')

\* C9: a call of generateAndDisplay that fails validation (word count not a
\* number or < 1, empty effective list, or effective list smaller than the
\* word count) draws no random number, leaves the displayed passphrase,
\* count, strength and lengths unchanged and sets the validation message; the
\* passphrase and the count change only in a call that passes validation and
\* writes both.
C9_FailedValidationWritesNothing ==
    /\ []ShownByOneCall
    /\ [][FailedCallWritesNothing /\ WrittenTogether]_vars

\* A call failed for want of words while a passphrase was on display.
C9_Witness ==
    /\ lastGen.status = "invalid"
    /\ lastGen.effSize > 0
    /\ lastGen.effSize < lastGen.count.val
    /\ validationMsg.kind = "Not enough words"
    /\ passphraseOutput # <<>>

\* ---- C11 (Spec) ----
\* Lengths of the words of the effective list of the last call
EffectiveWordLengths ==
    LET list == getEffectiveWordList(activeWords, IntToString(lastGen.garbleMax))
    IN {Len(list[i]) : i \in DOMAIN list}

\* count words of length wordLen each, the separators between them and,
\* when a digit is included, a separator and the digit
LengthOfWords(wordLen) ==
    wordLen * lastGen.count.val
      + Len(separatorValue) * (lastGen.count.val - 1)
      + (IF includeNumberValue # "none" THEN Len(separatorValue) + 1 ELSE 0)

\* C11: after every successful generateAndDisplay, for any reachable
\* configuration, the length of the displayed passphrase lies between the
\* displayed minimum and maximum lengths, which are those of count words of
\* the shortest and of the longest length in the effective list.
C11_LengthWithinDisplayedRange ==
    lastGen.status = "ok" =>
        /\ currentLength = Len(passphraseOutput)
        /\ \A l \in EffectiveWordLengths : LengthOfWords(l) \in minLength..maxLength
        /\ \E l \in EffectiveWordLengths : minLength = LengthOfWords(l)
        /\ \E l \in EffectiveWordLengths : maxLength = LengthOfWords(l)
        /\ minLength <= currentLength
        /\ currentLength <= maxLength

====
